---- MODULE Spec2Model ----
(***************************************************************************)
(* gupdeps: analysis of Go dependency updates.                             *)
(*                                                                         *)
(* The model follows internal/dependencies (the go-git backed              *)
(* GitOperations, CommitAnalyzer, DependencyFetcher, DependencyUpdater)    *)
(* and cmd/gupdeps/main.go.  Commit messages are sequences of one-letter   *)
(* strings so that the keyword patterns are matched as the regular         *)
(* expressions match them; reasons are Go strings built as fmt.Sprintf     *)
(* builds them.                                                            *)
(***************************************************************************)
EXTENDS Integers, Sequences, FiniteSets, TLC

VARIABLES
    deps,       \* []*models.Dependency handled by the run
    idx,        \* position of the range loop over deps
    pc,         \* statement the run is at
    world,      \* per dependency: the remote repository and the module proxy
    tempDirs,   \* temporary directories that exist on disk
    tempDir,    \* the directory owned by the running GetCommitsBetweenVersions
    repo,       \* *git.Repository of the running call (its local refs)
    hashes,     \* currentHash/currentErr, latestHash/latestErr of getCommitLog
    ret,        \* ([]models.CommitInfo, error) of the git operations
    analysis,   \* (*models.UpdateAnalysis, error) of AnalyzeDependency
    trace,      \* stages entered by the analysis of deps[idx], in order
    mode,       \* "automatic" or "interactive" (the -interactive flag)
    outcome,    \* per dependency: the branch the loop took after its analysis
    approved,   \* approvedUpdates
    rejected,   \* rejectedUpdates
    applied,    \* the calls of ApplyUpdate so far: name, version, result
    tidyRuns,   \* number of calls of RunModTidy
    lastLine    \* the last line reader.ReadString returned (interactive mode)

\* what the loops of main.go own
run == <<mode, outcome, approved, rejected, applied, tidyRuns, lastLine>>

vars == <<deps, idx, pc, world, tempDirs, tempDir, repo, hashes, ret, analysis,
          trace, mode, outcome, approved, rejected, applied, tidyRuns, lastLine>>

-----------------------------------------------------------------------------
(* Bounds of the model.                                                    *)

\* longest commit list handed to the analyzer on its own
MaxLen == 3

\* program constants
maxCommits == 200
recentLimit == 300

-----------------------------------------------------------------------------
(* Text: letters, case folding, substring search.                          *)

UpperLetters ==
    <<"A", "B", "C", "D", "E", "F", "G", "H", "I", "J", "K", "L", "M",
      "N", "O", "P", "Q", "R", "S", "T", "U", "V", "W", "X", "Y", "Z">>

LowerLetters ==
    <<"a", "b", "c", "d", "e", "f", "g", "h", "i", "j", "k", "l", "m",
      "n", "o", "p", "q", "r", "s", "t", "u", "v", "w", "x", "y", "z">>

\* case folding of one letter, as the (?i) flag of the patterns folds it
FoldChar(c) ==
    IF \E i \in 1..26 : UpperLetters[i] = c
    THEN LowerLetters[CHOOSE i \in 1..26 : UpperLetters[i] = c]
    ELSE c

Fold(s) == [i \in 1..Len(s) |-> FoldChar(s[i])]

\* kw occurs somewhere in s, letters compared without case
ContainsFold(s, kw) ==
    LET fs == Fold(s)
        fk == Fold(kw)
    IN \E i \in 1..(Len(s) - Len(kw) + 1) : SubSeq(fs, i, i + Len(kw) - 1) = fk

\* regexp.MatchString of an alternation (?i)(k1|k2|...) on msg
MatchString(pattern, msg) ==
    \E k \in 1..Len(pattern) : ContainsFold(msg, pattern[k])

\* The four patterns of AnalyzeCommits.
patterns ==
    [fix |->
        << <<"f", "i", "x">>,
           <<"b", "u", "g">>,
           <<"p", "a", "t", "c", "h">>,
           <<"r", "e", "s", "o", "l", "v", "e">>,
           <<"c", "o", "r", "r", "e", "c", "t">> >>,
     perf |->
        << <<"p", "e", "r", "f">>,
           <<"o", "p", "t", "i", "m", "i", "z", "e">>,
           <<"p", "e", "r", "f", "o", "r", "m", "a", "n", "c", "e">>,
           <<"s", "p", "e", "e", "d">>,
           <<"f", "a", "s", "t", "e", "r">> >>,
     break |->
        << <<"b", "r", "e", "a", "k", "i", "n", "g">>,
           <<"b", "r", "e", "a", "k">>,
           <<"r", "e", "m", "o", "v", "e">>,
           <<"d", "e", "p", "r", "e", "c", "a", "t", "e">>,
           <<"B", "R", "E", "A", "K", "I", "N", "G">> >>,
     feature |->
        << <<"f", "e", "a", "t">>,
           <<"f", "e", "a", "t", "u", "r", "e">>,
           <<"a", "d", "d">>,
           <<"n", "e", "w">> >>]

Categories == {"fix", "perf", "break", "feature"}

-----------------------------------------------------------------------------
(* Commit messages the model draws from.                                   *)

\* "fix: typo"
MsgFixTypo == <<"f", "i", "x", ":", " ", "t", "y", "p", "o">>

\* "fix: null pointer"
MsgFixNull ==
    <<"f", "i", "x", ":", " ", "n", "u", "l", "l", " ",
      "p", "o", "i", "n", "t", "e", "r">>

\* "BREAKING: remove legacy API"
MsgBreaking ==
    <<"B", "R", "E", "A", "K", "I", "N", "G", ":", " ", "r", "e", "m", "o",
      "v", "e", " ", "l", "e", "g", "a", "c", "y", " ", "A", "P", "I">>

\* "feat: add cache"
MsgFeat ==
    <<"f", "e", "a", "t", ":", " ", "a", "d", "d", " ", "c", "a", "c", "h", "e">>

\* "perf: faster"
MsgPerf == <<"p", "e", "r", "f", ":", " ", "f", "a", "s", "t", "e", "r">>

\* "docs: readme"
MsgDocs == <<"d", "o", "c", "s", ":", " ", "r", "e", "a", "d", "m", "e">>

\* "Bugfix, add speedup"
MsgMixed ==
    <<"B", "u", "g", "f", "i", "x", ",", " ", "a", "d", "d", " ",
      "s", "p", "e", "e", "d", "u", "p">>

\* "Deprecate v1"
MsgDeprecate == <<"D", "e", "p", "r", "e", "c", "a", "t", "e", " ", "v", "1">>

Messages ==
    {MsgFixTypo, MsgFixNull, MsgBreaking, MsgFeat, MsgPerf, MsgDocs, MsgMixed,
     MsgDeprecate}

-----------------------------------------------------------------------------
(* CommitAnalyzer.                                                         *)

NoErr == "nil"

\* pattern.MatchString(msg) of every pattern on every message of the model
matchTable ==
    [c \in Categories |-> [m \in Messages |-> MatchString(patterns[c], m)]]

ZeroCounts == [fix |-> 0, perf |-> 0, break |-> 0, feature |-> 0]

\* the counting loop with a feature counted for every commit
RECURSIVE CountFrom_EveryCommitAFeature(_, _, _)
CountFrom_EveryCommitAFeature(commits, i, counts) ==
    IF i > Len(commits) THEN counts
    ELSE CountFrom_EveryCommitAFeature(commits, i + 1,
            [c \in Categories |->
                IF c = "feature" \/ matchTable[c][commits[i].Message]
                THEN counts[c] + 1 ELSE counts[c]])

\* the counting loop of AnalyzeCommits over commits[i..]
RECURSIVE CountFrom(_, _, _)
CountFrom(commits, i, counts) ==
    IF i > Len(commits) THEN counts
    ELSE CountFrom(commits, i + 1,
            [c \in Categories |->
                IF matchTable[c][commits[i].Message]
                THEN counts[c] + 1 ELSE counts[c]])

Counts(commits) == CountFrom(commits, 1, ZeroCounts)

formatRejectionReason(breakingChanges) ==
    "Contains " \o ToString(breakingChanges) \o " breaking changes"

\* strings.Join(reasons, ", ")
RECURSIVE Join(_, _)
Join(reasons, sep) ==
    IF Len(reasons) = 0 THEN ""
    ELSE IF Len(reasons) = 1 THEN reasons[1]
    ELSE reasons[1] \o sep \o Join(Tail(reasons), sep)

\* formatApprovalReason that also reports the features
formatApprovalReason_WithFeatures(counts) ==
    LET r1 == IF counts.fix > 0
              THEN << ToString(counts.fix) \o " fixes" >> ELSE << >>
        r2 == IF counts.perf > 0
              THEN Append(r1, ToString(counts.perf) \o " optimizations") ELSE r1
        r3 == IF counts.feature > 0
              THEN Append(r2, ToString(counts.feature) \o " new features") ELSE r2
    IN Join(r3, ", ")

formatApprovalReason(counts) ==
    LET r1 == IF counts.fix > 0
              THEN << ToString(counts.fix) \o " fixes" >> ELSE << >>
        r2 == IF counts.perf > 0
              THEN Append(r1, ToString(counts.perf) \o " optimizations") ELSE r1
    IN Join(r2, ", ")

\* formatFeatureReason that reports one feature too few
formatFeatureReason_OffByOne(featureCount) ==
    ToString(featureCount - 1) \o " new features"

formatFeatureReason(featureCount) == ToString(featureCount) \o " new features"

\* Decide with the positive signals tested before the breaking changes
Decide_FixBeforeBreak(counts) ==
    IF counts.fix > 0 \/ counts.perf > 0
    THEN [shouldUpdate |-> TRUE, reason |-> formatApprovalReason(counts),
          riskLevel |-> ""]
    ELSE IF counts.break > 0
    THEN [shouldUpdate |-> FALSE, reason |-> "",
          riskLevel |-> formatRejectionReason(counts.break)]
    ELSE IF counts.feature > 0
    THEN [shouldUpdate |-> TRUE, reason |-> formatFeatureReason(counts.feature),
          riskLevel |-> ""]
    ELSE [shouldUpdate |-> FALSE, reason |-> "",
          riskLevel |-> "No significant improvements found"]

\* the decision logic, on the counts of the loop
Decide(counts) ==
    IF counts.break > 0
    THEN [shouldUpdate |-> FALSE, reason |-> "",
          riskLevel |-> formatRejectionReason(counts.break)]
    ELSE IF counts.fix > 0 \/ counts.perf > 0
    THEN [shouldUpdate |-> TRUE, reason |-> formatApprovalReason(counts),
          riskLevel |-> ""]
    ELSE IF counts.feature > 0
    THEN [shouldUpdate |-> TRUE, reason |-> formatFeatureReason(counts.feature),
          riskLevel |-> ""]
    ELSE [shouldUpdate |-> FALSE, reason |-> "",
          riskLevel |-> "No significant improvements found"]

AnalyzeCommits(commits) == Decide(Counts(commits))

AnalyzeUpdate(dep, commits) ==
    LET r == AnalyzeCommits(commits)
    IN [Dependency |-> dep,
        Commits |-> commits,
        ShouldUpdate |-> r.shouldUpdate,
        UpdateReason |-> r.reason,
        RejectionReason |-> r.riskLevel]

-----------------------------------------------------------------------------
(* Dependencies, versions and the remote repositories.                     *)

\* module paths, in the sorted order GetDependencies returns them:
\* github.com/a/x, github.com/b/y, gitlab.com/c/z, gopkg.in/yaml.v3
Names ==
    << <<"g", "i", "t", "h", "u", "b", ".", "c", "o", "m", "/", "a", "/", "x">>,
       <<"g", "i", "t", "h", "u", "b", ".", "c", "o", "m", "/", "b", "/", "y">>,
       <<"g", "i", "t", "l", "a", "b", ".", "c", "o", "m", "/", "c", "/", "z">>,
       <<"g", "o", "p", "k", "g", ".", "i", "n", "/", "y", "a", "m", "l", ".", "v", "3">> >>

Versions == {"v1.0.0", "v1.1.0"}

\* the spellings with the bare names tried before the tags
versionRefs_BareFirst(versionStr) ==
    << versionStr,
       "v" \o versionStr,
       "refs/tags/" \o versionStr,
       "refs/tags/v" \o versionStr >>

\* the reference spellings resolveVersionRef tries, in its order
versionRefs(versionStr) ==
    << "refs/tags/" \o versionStr,
       "refs/tags/v" \o versionStr,
       versionStr,
       "v" \o versionStr >>

Revisions == UNION {{versionRefs(v)[k] : k \in 1..4} : v \in Versions}

\* length of the short history
TinyLen == 6

\* how far the long histories go past the limits
Extra == 2

\* most dependencies in one go.mod
MaxDeps == 2

\* the message of commit c
MsgOf(c) ==
    CASE c = 1 -> MsgBreaking
      [] c = 3 -> MsgFeat
      [] c = 4 -> MsgFixTypo
      [] OTHER -> MsgDocs

\* Refs of the short history: of version "v1.0.0" the spellings in pc point to
\* the commits 1..4, of "v1.1.0" the spellings in pl point to TinyLen..TinyLen-3
TinyRefs(pc1, pl1) ==
    [r \in Revisions |->
        IF \E k \in pc1 : versionRefs("v1.0.0")[k] = r
        THEN CHOOSE k \in pc1 : versionRefs("v1.0.0")[k] = r
        ELSE IF \E k \in pl1 : versionRefs("v1.1.0")[k] = r
        THEN TinyLen + 1 - (CHOOSE k \in pl1 : versionRefs("v1.1.0")[k] = r)
        ELSE 0]

\* A remote repository: the commits 1..n, numbered oldest first; a commit in
\* roots has no parent, every other commit c has the parent c - 1; HEAD is the
\* newest commit
Remote(n, refs) == [n |-> n, roots |-> {1}, head |-> n, refs |-> refs]

TinyWorlds ==
    {Remote(TinyLen, TinyRefs(a, b)) : a \in SUBSET (1..4), b \in SUBSET (1..4)}

\* Long histories: around the limits of the two walks; "v1.1.0" is the tip,
\* "v1.0.0" is the root or has no tag
BigSizes ==
    {maxCommits + k : k \in 0..Extra} \cup {recentLimit + k : k \in 0..Extra}

BigRefs(n, withCurrent) ==
    [r \in Revisions |->
        IF r = "refs/tags/v1.1.0" THEN n
        ELSE IF withCurrent /\ r = "refs/tags/v1.0.0" THEN 1
        ELSE 0]

BigWorlds == {Remote(n, BigRefs(n, w)) : n \in BigSizes, w \in BOOLEAN}

\* Divergent histories: two lines of commits with no common ancestor, the
\* older one 1..TinyLen-3, the newer one TinyLen-2..TinyLen; "v1.0.0" is a
\* commit of the older line, "v1.1.0" the commit before HEAD on the newer one
DivergentRefs ==
    [r \in Revisions |->
        IF r = "refs/tags/v1.0.0" THEN 2
        ELSE IF r = "refs/tags/v1.1.0" THEN TinyLen - 1
        ELSE 0]

DivergentWorlds ==
    {[n |-> TinyLen, roots |-> {1, TinyLen - 2}, head |-> TinyLen,
      refs |-> DivergentRefs]}

\* most segments after the host in a module path handed to
\* determineRepositoryURL on its own
MaxSegments == 3

\* hosts: github.com, gitlab.com, bitbucket.org, gopkg.in, golang.org
PathHosts ==
    {<<"g", "i", "t", "h", "u", "b", ".", "c", "o", "m">>,
     <<"g", "i", "t", "l", "a", "b", ".", "c", "o", "m">>,
     <<"b", "i", "t", "b", "u", "c", "k", "e", "t", ".", "o", "r", "g">>,
     <<"g", "o", "p", "k", "g", ".", "i", "n">>,
     <<"g", "o", "l", "a", "n", "g", ".", "o", "r", "g">>}

\* segments: yaml.v3, a.b.v1, x.y, user
PathSegments ==
    {<<"y", "a", "m", "l", ".", "v", "3">>,
     <<"a", ".", "b", ".", "v", "1">>,
     <<"x", ".", "y">>,
     <<"u", "s", "e", "r">>}

\* the paths of a host and k segments
RECURSIVE PathsOf(_)
PathsOf(k) ==
    IF k = 0 THEN PathHosts
    ELSE {p \o <<"/">> \o seg : p \in PathsOf(k - 1), seg \in PathSegments}

ModulePaths == UNION {PathsOf(k) : k \in 0..MaxSegments}

\* the repositories of a batch run: tags resolve to an approved range, to an
\* undecided range, or do not resolve
BatchWorlds ==
    {Remote(TinyLen, TinyRefs({2}, {1})),
     Remote(TinyLen, TinyRefs({4}, {1})),
     Remote(TinyLen, TinyRefs({}, {}))}

NoRefs == [r \in Revisions |-> 0]

\* no repository opened yet: no commits, no refs, no remote URL
NoRepo == [n |-> 0, roots |-> {}, head |-> 0, refs |-> NoRefs, url |-> << >>]

-----------------------------------------------------------------------------
(* GitOperations: the functions of the go-git backend.                     *)

\* the Go string of a sequence of characters
RECURSIVE String(_)
String(s) == IF Len(s) = 0 THEN "" ELSE s[1] \o String(Tail(s))

\* strings.HasPrefix
HasPrefix(s, prefix) ==
    Len(s) >= Len(prefix) /\ SubSeq(s, 1, Len(prefix)) = prefix

\* strings.Split(s, sep) for a separator of one character
RECURSIVE Split(_, _)
Split(s, sep) ==
    LET at == {i \in 1..Len(s) : s[i] = sep}
        first == CHOOSE i \in at : \A j \in at : i <= j
    IN IF at = {} THEN <<s>>
       ELSE <<SubSeq(s, 1, first - 1)>> \o Split(SubSeq(s, first + 1, Len(s)), sep)

\* the literals of determineRepositoryURL
GithubCom == <<"g", "i", "t", "h", "u", "b", ".", "c", "o", "m", "/">>
GitlabCom == <<"g", "i", "t", "l", "a", "b", ".", "c", "o", "m", "/">>
BitbucketOrg == <<"b", "i", "t", "b", "u", "c", "k", "e", "t", ".", "o", "r", "g", "/">>
GopkgIn == <<"g", "o", "p", "k", "g", ".", "i", "n", "/">>
Https == <<"h", "t", "t", "p", "s", ":", "/", "/">>
HttpsGithubCom == <<"h", "t", "t", "p", "s", ":", "/", "/", "g", "i", "t", "h", "u", "b", ".", "c", "o", "m", "/">>
GoDash == <<"g", "o", "-">>
DotGit == <<".", "g", "i", "t">>

\* determineRepositoryURL: the URL, and whether the warning of line 96 is
\* logged.  parts[1] of the Go code is parts[2] here.
determineRepositoryURL(modulePath) ==
    LET parts == Split(modulePath, "/")
        guess == [url |-> Https \o modulePath \o DotGit, warn |-> TRUE]
    IN IF \/ HasPrefix(modulePath, GithubCom)
          \/ HasPrefix(modulePath, GitlabCom)
          \/ HasPrefix(modulePath, BitbucketOrg)
       THEN [url |-> Https \o modulePath \o DotGit, warn |-> FALSE]
       ELSE IF HasPrefix(modulePath, GopkgIn) /\ Len(parts) >= 2
       THEN IF Len(parts) = 2
            THEN LET pkgParts == Split(parts[2], ".")
                 IN IF Len(pkgParts) >= 2
                    THEN [url |-> HttpsGithubCom \o GoDash \o pkgParts[1]
                                     \o <<"/">> \o pkgParts[1] \o DotGit,
                          warn |-> FALSE]
                    ELSE guess
            ELSE LET pkgParts == Split(parts[3], ".")
                 IN IF Len(pkgParts) >= 2
                    THEN [url |-> HttpsGithubCom \o parts[2]
                                     \o <<"/">> \o pkgParts[1] \o DotGit,
                          warn |-> FALSE]
                    ELSE guess
       ELSE guess

\* repo.ResolveRevision: the commit a revision names, 0 when it has none
ResolveRevision(r, rev) == IF rev \in DOMAIN r.refs THEN r.refs[rev] ELSE 0

\* the loop of resolveVersionRef from spelling k on
RECURSIVE resolveFrom(_, _, _)
resolveFrom(r, versionStr, k) ==
    IF k > Len(versionRefs(versionStr))
    THEN [hash |-> 0,
          err |-> "could not resolve version reference for " \o versionStr]
    ELSE IF ResolveRevision(r, versionRefs(versionStr)[k]) # 0
    THEN [hash |-> ResolveRevision(r, versionRefs(versionStr)[k]), err |-> NoErr]
    ELSE resolveFrom(r, versionStr, k + 1)

resolveVersionRef(r, versionStr) == resolveFrom(r, versionStr, 1)

\* the parent of commit c, 0 when it has none
Parent(r, c) == IF c \in r.roots THEN 0 ELSE c - 1

\* repo.Log(From: h): the commits the iterator yields, h first, then its
\* parent, and so on down to the root of h
Log(r, h) ==
    IF h = 0 THEN << >>
    ELSE LET root == CHOOSE x \in r.roots :
                        x <= h /\ \A y \in r.roots : y <= h => y <= x
         IN [i \in 1..(h - root + 1) |-> h + 1 - i]

\* models.CommitInfo of commit c (the author date is not modelled)
CommitInfo(c) == [Hash |-> c, Message |-> MsgOf(c)]

\* the error the callbacks return at the limit
limitErr(limit) == "reached maximum commit limit (" \o ToString(limit) \o ")"

\* the walk with the boundary test after the append: `from` is emitted too
between_IncludesBoundary(log, from) ==
    LET stops == {i \in 1..Len(log) : log[i] = from \/ i >= maxCommits}
        stop == CHOOSE i \in stops : \A j \in stops : i <= j
    IN IF stops = {}
       THEN [commits |-> [i \in 1..Len(log) |-> CommitInfo(log[i])], err |-> NoErr]
       ELSE [commits |-> [i \in 1..stop |-> CommitInfo(log[i])],
             err |-> IF log[stop] = from THEN "reached boundary commit"
                     ELSE limitErr(maxCommits)]

\* commitIter.ForEach of getCommitsBetweenHashes on log: the callback appends
\* every commit it is given until it returns an error, at the first commit i
\* that is `from` or that finds processedCommits (i - 1) at maxCommits
between(log, from) ==
    LET stops == {i \in 1..Len(log) : log[i] = from \/ i - 1 >= maxCommits}
        stop == CHOOSE i \in stops : \A j \in stops : i <= j
    IN IF stops = {}
       THEN [commits |-> [i \in 1..Len(log) |-> CommitInfo(log[i])], err |-> NoErr]
       ELSE [commits |-> [i \in 1..(stop - 1) |-> CommitInfo(log[i])],
             err |-> IF log[stop] = from THEN "reached boundary commit"
                     ELSE limitErr(maxCommits)]

\* fault: the library call that fails ("none", "from", "to", "log", "iter")
getCommitsBetweenHashes(r, from, to, fault) ==
    CASE fault = "from" -> [commits |-> << >>, err |-> "failed to get 'from' commit"]
      [] fault = "to" -> [commits |-> << >>, err |-> "failed to get 'to' commit"]
      [] fault = "log" -> [commits |-> << >>, err |-> "failed to get commit log"]
      [] OTHER ->
           LET walk == IF fault = "iter"
                       THEN [commits |-> << >>, err |-> "object not found"]
                       ELSE between(Log(r, to), from)
           IN IF /\ walk.err # NoErr
                 /\ walk.err # "reached boundary commit"
                 /\ walk.err # limitErr(maxCommits)
              THEN [commits |-> << >>, err |-> "error iterating commits"]
              ELSE [commits |-> walk.commits, err |-> NoErr]

\* commitIter.ForEach of getRecentCommits on log: the callback appends every
\* commit until it finds processedCommits (i - 1) at limit
recent(log, limit) ==
    LET stops == {i \in 1..Len(log) : i - 1 >= limit}
        stop == CHOOSE i \in stops : \A j \in stops : i <= j
    IN IF stops = {}
       THEN [commits |-> [i \in 1..Len(log) |-> CommitInfo(log[i])], err |-> NoErr]
       ELSE [commits |-> [i \in 1..(stop - 1) |-> CommitInfo(log[i])],
             err |-> limitErr(limit)]

\* fault: the library call that fails ("none", "head", "log", "iter")
getRecentCommits(r, limit, fault) ==
    CASE fault = "head" -> [commits |-> << >>, err |-> "failed to get HEAD reference"]
      [] fault = "log" -> [commits |-> << >>, err |-> "failed to get commit log"]
      [] OTHER ->
           LET walk == IF fault = "iter"
                       THEN [commits |-> << >>, err |-> "object not found"]
                       ELSE recent(Log(r, r.head), limit)
           IN IF walk.err # NoErr /\ walk.err # limitErr(limit)
              THEN [commits |-> << >>, err |-> "error iterating commits"]
              ELSE [commits |-> walk.commits, err |-> NoErr]

-----------------------------------------------------------------------------
(* GetCommitsBetweenVersions, statement by statement.                      *)

dep == deps[idx]

NoHashes == [current |-> [hash |-> 0, err |-> NoErr],
             latest |-> [hash |-> 0, err |-> NoErr]]

NoRet == [commits |-> << >>, err |-> NoErr]

\* (*models.UpdateAnalysis, error): result is << >> for nil, <<a>> for &a
NoAnalysis == [result |-> << >>, err |-> NoErr]

\* the return with os.RemoveAll called on the successful path only
gitReturn_CleanupOnSuccessOnly(r) ==
    /\ ret' = r
    /\ tempDirs' = IF r.err = NoErr THEN tempDirs \ {tempDir} ELSE tempDirs
    /\ tempDir' = 0
    /\ pc' = "AnalyzeUpdate"

\* return of GetCommitsBetweenVersions: the deferred os.RemoveAll(tempDir) runs
gitReturn(r) ==
    /\ ret' = r
    /\ tempDirs' = tempDirs \ {tempDir}
    /\ tempDir' = 0
    /\ pc' = "AnalyzeUpdate"

\* GetCommitsBetweenVersions without the equal-versions return
GetCommitsBetweenVersions_NoShortCut ==
    /\ pc = "GetCommitsBetweenVersions"
    /\ \E mkdirOk \in BOOLEAN :
         IF mkdirOk
         THEN /\ tempDir' = idx
              /\ tempDirs' = tempDirs \cup {idx}
              /\ trace' = Append(trace, "MkdirTemp")
              /\ pc' = "cloneRepository"
              /\ UNCHANGED ret
         ELSE /\ ret' = [commits |-> << >>,
                         err |-> "failed to create temp directory"]
              /\ trace' = Append(trace, "MkdirTemp")
              /\ pc' = "AnalyzeUpdate"
              /\ UNCHANGED <<tempDirs, tempDir>>
    /\ UNCHANGED <<deps, idx, world, repo, hashes, analysis, run>>

\* lines 31-40: the equal-versions return, then os.MkdirTemp
GetCommitsBetweenVersions ==
    /\ pc = "GetCommitsBetweenVersions"
    /\ IF dep.CurrentVersion = dep.LatestVersion
       THEN /\ ret' = NoRet
            /\ pc' = "AnalyzeUpdate"
            /\ UNCHANGED <<tempDirs, tempDir, trace>>
       ELSE \E mkdirOk \in BOOLEAN :
              IF mkdirOk
              THEN /\ tempDir' = idx
                   /\ tempDirs' = tempDirs \cup {idx}
                   /\ trace' = Append(trace, "MkdirTemp")
                   /\ pc' = "cloneRepository"
                   /\ UNCHANGED ret
              ELSE /\ ret' = [commits |-> << >>,
                              err |-> "failed to create temp directory"]
                   /\ trace' = Append(trace, "MkdirTemp")
                   /\ pc' = "AnalyzeUpdate"
                   /\ UNCHANGED <<tempDirs, tempDir>>
    /\ UNCHANGED <<deps, idx, world, repo, hashes, analysis, run>>

\* lines 42-48: determineRepositoryURL, then git.PlainClone into tempDir;
\* the clone may or may not bring the tags with it
cloneRepository ==
    /\ pc = "cloneRepository"
    /\ trace' = trace \o <<"determineRepositoryURL", "cloneRepository">>
    /\ \E cloneOk \in BOOLEAN, withTags \in BOOLEAN :
         LET repoURL == determineRepositoryURL(dep.Name).url
         IN IF cloneOk
            THEN /\ repo' = [n |-> world[idx].n,
                             roots |-> world[idx].roots,
                             head |-> world[idx].head,
                             refs |-> IF withTags THEN world[idx].refs ELSE NoRefs,
                             url |-> repoURL]
                 /\ pc' = "fetchTags"
                 /\ UNCHANGED <<ret, tempDirs, tempDir>>
            ELSE /\ gitReturn([commits |-> << >>,
                               err |-> "failed to clone repository "
                                          \o String(repoURL)])
                 /\ UNCHANGED repo
    /\ UNCHANGED <<deps, idx, world, hashes, analysis, run>>

\* repo.Fetch of refs/tags/*: on success the local tags are the remote's
fetchTags(r, ok) == IF ok THEN [r EXCEPT !.refs = world[idx].refs] ELSE r

\* the first fetchTags with its error returned to the caller
fetchTagsStep_AbortOnError ==
    /\ pc = "fetchTags"
    /\ trace' = Append(trace, "fetchTags")
    /\ \E ok \in BOOLEAN :
         IF ok
         THEN /\ repo' = fetchTags(repo, ok)
              /\ pc' = "getCommitLog"
              /\ UNCHANGED <<ret, tempDirs, tempDir>>
         ELSE /\ gitReturn([commits |-> << >>, err |-> "failed to fetch tags"])
              /\ UNCHANGED repo
    /\ UNCHANGED <<deps, idx, world, hashes, analysis, run>>

\* lines 50-54: the first fetchTags; its error is logged and dropped
fetchTagsStep ==
    /\ pc = "fetchTags"
    /\ \E ok \in BOOLEAN : repo' = fetchTags(repo, ok)
    /\ trace' = Append(trace, "fetchTags")
    /\ pc' = "getCommitLog"
    /\ UNCHANGED <<deps, idx, world, tempDirs, tempDir, hashes, ret, analysis, run>>

\* lines 158-162: getCommitLog fetches the tags again
getCommitLog ==
    /\ pc = "getCommitLog"
    /\ \E ok \in BOOLEAN : repo' = fetchTags(repo, ok)
    /\ trace' = Append(trace, "getCommitLog")
    /\ pc' = "resolveCurrent"
    /\ UNCHANGED <<deps, idx, world, tempDirs, tempDir, hashes, ret, analysis, run>>

\* line 165
resolveCurrent ==
    /\ pc = "resolveCurrent"
    /\ hashes' = [hashes EXCEPT !.current = resolveVersionRef(repo, dep.CurrentVersion)]
    /\ trace' = Append(trace, "resolveCurrent")
    /\ pc' = "resolveLatest"
    /\ UNCHANGED <<deps, idx, world, tempDirs, tempDir, repo, ret, analysis, run>>

\* the second resolution with a version that was not found returned as the
\* error of the call
resolveLatest_FailOnUnresolved ==
    /\ pc = "resolveLatest"
    /\ trace' = Append(trace, "resolveLatest")
    /\ LET latest == resolveVersionRef(repo, dep.LatestVersion)
       IN /\ hashes' = [hashes EXCEPT !.latest = latest]
          /\ IF hashes.current.err # NoErr
             THEN gitReturn([commits |-> << >>, err |-> hashes.current.err])
             ELSE IF latest.err # NoErr
             THEN gitReturn([commits |-> << >>, err |-> latest.err])
             ELSE /\ pc' = "getCommitsBetweenHashes"
                  /\ UNCHANGED <<ret, tempDirs, tempDir>>
    /\ UNCHANGED <<deps, idx, world, repo, analysis, run>>

\* lines 166-172: the second resolution and the choice of the walk
resolveLatest ==
    /\ pc = "resolveLatest"
    /\ hashes' = [hashes EXCEPT !.latest = resolveVersionRef(repo, dep.LatestVersion)]
    /\ trace' = Append(trace, "resolveLatest")
    /\ pc' = IF hashes.current.err # NoErr \/ hashes'.latest.err # NoErr
             THEN "getRecentCommits" ELSE "getCommitsBetweenHashes"
    /\ UNCHANGED <<deps, idx, world, tempDirs, tempDir, repo, ret, analysis, run>>

\* lines 175-185: the exact walk; its error sends getCommitLog to the fallback
getCommitsBetweenHashesStep ==
    /\ pc = "getCommitsBetweenHashes"
    /\ trace' = Append(trace, "getCommitsBetweenHashes")
    /\ \E fault \in {"none", "from", "to", "log", "iter"} :
         LET r == getCommitsBetweenHashes(repo, hashes.current.hash,
                                          hashes.latest.hash, fault)
         IN IF r.err # NoErr
            THEN /\ pc' = "getRecentCommits"
                 /\ UNCHANGED <<ret, tempDirs, tempDir>>
            ELSE gitReturn(r)
    /\ UNCHANGED <<deps, idx, world, repo, hashes, analysis, run>>

\* lines 171 and 178: return g.getRecentCommits(repo, 300)
getRecentCommitsStep ==
    /\ pc = "getRecentCommits"
    /\ trace' = Append(trace, "getRecentCommits")
    /\ \E fault \in {"none", "head", "log", "iter"} :
         gitReturn(getRecentCommits(repo, recentLimit, fault))
    /\ UNCHANGED <<deps, idx, world, repo, hashes, analysis, run>>

-----------------------------------------------------------------------------
(* DependencyFetcher.GetLatestVersion and DependencyUpdater.               *)

\* what `go list -m -versions` may print after the module path: nothing, or
\* the known versions in some order; ~ok is a failed command
Lookups ==
    {[ok |-> FALSE, versions |-> << >>], [ok |-> TRUE, versions |-> << >>]}
        \cup {[ok |-> TRUE, versions |-> <<v>>] : v \in Versions}
        \cup {[ok |-> TRUE, versions |-> <<v, w>>] : v \in Versions, w \in Versions}

\* GetLatestVersion marking every dependency it found versions for as
\* needing the update
GetLatestVersion_AlwaysNeeded(d, out) ==
    IF ~out.ok
    THEN [dep |-> d, err |-> "failed to get versions for " \o String(d.Name)]
    ELSE LET parts == <<d.Name>> \o out.versions
         IN IF Len(parts) < 2
            THEN [dep |-> d, err |-> "no versions found for " \o String(d.Name)]
            ELSE LET versions == Tail(parts)
                     latest == versions[Len(versions)]
                 IN [dep |-> [d EXCEPT !.LatestVersion = latest,
                                       !.UpdateNeeded = TRUE],
                     err |-> NoErr]

\* GetLatestVersion on the command's outcome: the dependency and the error
GetLatestVersion(d, out) ==
    IF ~out.ok
    THEN [dep |-> d, err |-> "failed to get versions for " \o String(d.Name)]
    ELSE LET parts == <<d.Name>> \o out.versions
         IN IF Len(parts) < 2
            THEN [dep |-> d, err |-> "no versions found for " \o String(d.Name)]
            ELSE LET versions == Tail(parts)
                     latest == versions[Len(versions)]
                 IN [dep |-> [d EXCEPT !.LatestVersion = latest,
                                       !.UpdateNeeded = (d.CurrentVersion # latest)],
                     err |-> NoErr]

\* AnalyzeDependency without the no-update return: every dependency whose
\* lookup succeeded goes on to GetCommitsBetweenVersions
AnalyzeDependency_NoShortCut ==
    /\ pc = "AnalyzeDependency"
    /\ \E out \in Lookups :
         LET r == GetLatestVersion(dep, out)
         IN /\ deps' = [deps EXCEPT ![idx] = r.dep]
            /\ trace' = Append(trace, "GetLatestVersion")
            /\ IF r.err # NoErr
               THEN /\ analysis' = [result |-> << >>,
                                    err |-> "failed to get latest version: " \o r.err]
                    /\ pc' = "loopBody"
               ELSE /\ pc' = "GetCommitsBetweenVersions"
                    /\ UNCHANGED analysis
    /\ UNCHANGED <<idx, world, tempDirs, tempDir, repo, hashes, ret, run>>

\* AnalyzeDependency, lines 58-70: the lookup and the no-update return
AnalyzeDependency ==
    /\ pc = "AnalyzeDependency"
    /\ \E out \in Lookups :
         LET r == GetLatestVersion(dep, out)
         IN /\ deps' = [deps EXCEPT ![idx] = r.dep]
            /\ trace' = Append(trace, "GetLatestVersion")
            /\ IF r.err # NoErr
               THEN /\ analysis' = [result |-> << >>,
                                    err |-> "failed to get latest version: " \o r.err]
                    /\ pc' = "loopBody"
               ELSE IF ~r.dep.UpdateNeeded
               THEN /\ analysis' = [result |-> << [Dependency |-> r.dep,
                                                   Commits |-> << >>,
                                                   ShouldUpdate |-> FALSE,
                                                   UpdateReason |-> "",
                                                   RejectionReason |-> ""] >>,
                                    err |-> NoErr]
                    /\ pc' = "loopBody"
               ELSE /\ pc' = "GetCommitsBetweenVersions"
                    /\ UNCHANGED analysis
    /\ UNCHANGED <<idx, world, tempDirs, tempDir, repo, hashes, ret, run>>

\* the end of AnalyzeDependency with the error of GetCommitsBetweenVersions
\* dropped: the commits it returned are analysed in any case
AnalyzeUpdateStep_IgnoresError ==
    /\ pc = "AnalyzeUpdate"
    /\ analysis' = [result |-> <<AnalyzeUpdate(dep, ret.commits)>>, err |-> NoErr]
    /\ trace' = Append(trace, "AnalyzeUpdate")
    /\ pc' = "loopBody"
    /\ UNCHANGED <<deps, idx, world, tempDirs, tempDir, repo, hashes, ret, run>>

\* AnalyzeDependency, lines 73-80: after GetCommitsBetweenVersions returned
AnalyzeUpdateStep ==
    /\ pc = "AnalyzeUpdate"
    /\ IF ret.err # NoErr
       THEN /\ analysis' = [result |-> << >>,
                            err |-> "failed to get commits: " \o ret.err]
            /\ UNCHANGED trace
       ELSE /\ analysis' = [result |-> <<AnalyzeUpdate(dep, ret.commits)>>,
                            err |-> NoErr]
            /\ trace' = Append(trace, "AnalyzeUpdate")
    /\ pc' = "loopBody"
    /\ UNCHANGED <<deps, idx, world, tempDirs, tempDir, repo, hashes, ret, run>>

\* DependencyUpdater.ApplyUpdate: one `go get name@latest`, which may fail
ApplyUpdate(d, ok) == [Name |-> d.Name, Version |-> d.LatestVersion, ok |-> ok]

-----------------------------------------------------------------------------
(* cmd/gupdeps/main.go.                                                    *)

\* the range loop moves to the next dependency, or leaves to `after`
nextDependency(after) ==
    /\ idx' = idx + 1
    /\ pc' = IF idx + 1 <= Len(deps) THEN "AnalyzeDependency" ELSE after
    /\ trace' = << >>
    /\ repo' = NoRepo
    /\ hashes' = NoHashes
    /\ ret' = NoRet

\* analyzeDependencies returning at the first failed analysis
analyzeDependencies_AbortOnError ==
    /\ pc = "loopBody"
    /\ mode = "automatic"
    /\ IF analysis.err # NoErr
       THEN /\ outcome' = [outcome EXCEPT ![idx] = "failed"]
            /\ pc' = "done"
            /\ UNCHANGED <<approved, rejected, idx, trace, repo, hashes, ret>>
       ELSE /\ nextDependency("applyUpdates")
            /\ IF ~dep.UpdateNeeded
               THEN /\ outcome' = [outcome EXCEPT ![idx] = "uptodate"]
                    /\ UNCHANGED <<approved, rejected>>
               ELSE IF analysis.result[1].ShouldUpdate
               THEN /\ approved' = Append(approved, analysis.result[1])
                    /\ outcome' = [outcome EXCEPT ![idx] = "approved"]
                    /\ UNCHANGED rejected
               ELSE /\ rejected' = Append(rejected, analysis.result[1])
                    /\ outcome' = [outcome EXCEPT ![idx] = "rejected"]
                    /\ UNCHANGED approved
    /\ UNCHANGED <<deps, world, tempDirs, tempDir, analysis, mode, applied, tidyRuns,
                   lastLine>>

\* analyzeDependencies with the test of ShouldUpdate inverted
analyzeDependencies_Inverted ==
    /\ pc = "loopBody"
    /\ mode = "automatic"
    /\ IF analysis.err # NoErr
       THEN /\ outcome' = [outcome EXCEPT ![idx] = "failed"]
            /\ UNCHANGED <<approved, rejected>>
       ELSE IF ~dep.UpdateNeeded
       THEN /\ outcome' = [outcome EXCEPT ![idx] = "uptodate"]
            /\ UNCHANGED <<approved, rejected>>
       ELSE IF ~analysis.result[1].ShouldUpdate
       THEN /\ approved' = Append(approved, analysis.result[1])
            /\ outcome' = [outcome EXCEPT ![idx] = "approved"]
            /\ UNCHANGED rejected
       ELSE /\ rejected' = Append(rejected, analysis.result[1])
            /\ outcome' = [outcome EXCEPT ![idx] = "rejected"]
            /\ UNCHANGED approved
    /\ nextDependency("applyUpdates")
    /\ UNCHANGED <<deps, world, tempDirs, tempDir, analysis, mode, applied, tidyRuns,
                   lastLine>>

\* analyzeDependencies, lines 100-119: one turn of the loop after the analysis
analyzeDependencies ==
    /\ pc = "loopBody"
    /\ mode = "automatic"
    /\ IF analysis.err # NoErr
       THEN /\ outcome' = [outcome EXCEPT ![idx] = "failed"]
            /\ UNCHANGED <<approved, rejected>>
       ELSE IF ~dep.UpdateNeeded
       THEN /\ outcome' = [outcome EXCEPT ![idx] = "uptodate"]
            /\ UNCHANGED <<approved, rejected>>
       ELSE IF analysis.result[1].ShouldUpdate
       THEN /\ approved' = Append(approved, analysis.result[1])
            /\ outcome' = [outcome EXCEPT ![idx] = "approved"]
            /\ UNCHANGED rejected
       ELSE /\ rejected' = Append(rejected, analysis.result[1])
            /\ outcome' = [outcome EXCEPT ![idx] = "rejected"]
            /\ UNCHANGED approved
    /\ nextDependency("applyUpdates")
    /\ UNCHANGED <<deps, world, tempDirs, tempDir, analysis, mode, applied, tidyRuns,
                   lastLine>>

\* applyUpdates, lines 130-132: nothing approved, nothing to do
applyUpdates ==
    /\ pc = "applyUpdates"
    /\ pc' = IF Len(approved) = 0 THEN "done" ELSE "ApplyUpdate"
    /\ UNCHANGED <<deps, idx, world, tempDirs, tempDir, repo, hashes, ret,
                   analysis, trace, run>>

\* the loop over approvedUpdates returning at the first failed ApplyUpdate
applyUpdatesLoop_StopOnError ==
    /\ pc = "ApplyUpdate"
    /\ \E ok \in BOOLEAN :
         /\ applied' = Append(applied,
                              ApplyUpdate(approved[Len(applied) + 1].Dependency, ok))
         /\ pc' = IF ~ok THEN "done"
                  ELSE IF Len(applied) + 1 = Len(approved) THEN "RunModTidy"
                  ELSE "ApplyUpdate"
    /\ UNCHANGED <<deps, idx, world, tempDirs, tempDir, repo, hashes, ret,
                   analysis, trace, mode, outcome, approved, rejected, tidyRuns,
                   lastLine>>

\* applyUpdates, lines 135-139: one turn of the loop over approvedUpdates
applyUpdatesLoop ==
    /\ pc = "ApplyUpdate"
    /\ \E ok \in BOOLEAN :
         applied' = Append(applied,
                           ApplyUpdate(approved[Len(applied) + 1].Dependency, ok))
    /\ pc' = IF Len(applied) + 1 = Len(approved) THEN "RunModTidy" ELSE "ApplyUpdate"
    /\ UNCHANGED <<deps, idx, world, tempDirs, tempDir, repo, hashes, ret,
                   analysis, trace, mode, outcome, approved, rejected, tidyRuns,
                   lastLine>>

\* RunModTidy at the end of applyUpdates and of runInteractiveMode; its
\* failure is logged only
RunModTidy ==
    /\ pc = "RunModTidy"
    /\ tidyRuns' = tidyRuns + 1
    /\ pc' = "done"
    /\ UNCHANGED <<deps, idx, world, tempDirs, tempDir, repo, hashes, ret,
                   analysis, trace, mode, outcome, approved, rejected, applied,
                   lastLine>>

\* what the user may type at the prompt (an empty read is end of input)
Responses ==
    { <<"y", "\n">>, <<"Y", "E", "S", "\n">>, <<" ", "y", "e", "s", " ", "\n">>,
      <<"q", "\n">>, <<"Q", "u", "i", "t", "\n">>,
      <<"n", "\n">>, <<"\n">>, << >> }

WhiteSpace == {" ", "\n", "\t", "\r"}

\* strings.TrimSpace
RECURSIVE TrimSpace(_)
TrimSpace(s) ==
    IF Len(s) = 0 THEN s
    ELSE IF s[1] \in WhiteSpace THEN TrimSpace(Tail(s))
    ELSE IF s[Len(s)] \in WhiteSpace THEN TrimSpace(SubSeq(s, 1, Len(s) - 1))
    ELSE s

\* the switch of processDependencyInteractive with the update as its default
processDependencyInteractive_DefaultApplies(input) ==
    LET response == TrimSpace(Fold(input))
    IN IF response \in { <<"q">>, <<"q", "u", "i", "t">> } THEN "quit"
       ELSE "apply"

\* processDependencyInteractive, lines 222-236: "apply", "quit" or "skip"
processDependencyInteractive(input) ==
    LET response == TrimSpace(Fold(input))
    IN IF response \in { <<"y">>, <<"y", "e", "s">> } THEN "apply"
       ELSE IF response \in { <<"q">>, <<"q", "u", "i", "t">> } THEN "quit"
       ELSE "skip"

\* runInteractiveMode, lines 248-267: one turn of the loop after the analysis
runInteractiveMode ==
    /\ pc = "loopBody"
    /\ mode = "interactive"
    /\ IF analysis.err # NoErr
       THEN /\ outcome' = [outcome EXCEPT ![idx] = "failed"]
            /\ nextDependency("RunModTidy")
            /\ UNCHANGED <<applied, lastLine>>
       ELSE IF ~dep.UpdateNeeded
       THEN /\ outcome' = [outcome EXCEPT ![idx] = "uptodate"]
            /\ nextDependency("RunModTidy")
            /\ UNCHANGED <<applied, lastLine>>
       ELSE \E input \in Responses, ok \in BOOLEAN :
              LET answer == processDependencyInteractive(input)
              IN /\ lastLine' = input
                 /\ IF answer = "quit"
                    THEN /\ outcome' = [outcome EXCEPT ![idx] = "quit"]
                         /\ pc' = "done"
                         /\ UNCHANGED <<idx, trace, repo, hashes, ret, applied>>
                    ELSE IF answer = "apply"
                    THEN /\ outcome' = [outcome EXCEPT ![idx] = "applied"]
                         /\ applied' = Append(applied, ApplyUpdate(dep, ok))
                         /\ nextDependency("RunModTidy")
                    ELSE /\ outcome' = [outcome EXCEPT ![idx] = "skipped"]
                         /\ nextDependency("RunModTidy")
                         /\ UNCHANGED applied
    /\ UNCHANGED <<deps, world, tempDirs, tempDir, analysis, mode, approved,
                   rejected, tidyRuns>>

-----------------------------------------------------------------------------
(* The specifications.                                                     *)

\* a dependency as GetDependencies builds it
NewDependency(i, current) ==
    [Name |-> Names[i], CurrentVersion |-> current, LatestVersion |-> "",
     UpdateNeeded |-> FALSE]

\* the lists GetDependencies may return: sorted by name, names distinct
DepLists ==
    UNION {{[i \in 1..n |-> NewDependency(i, cv[i])] : cv \in [1..n -> Versions]}
           : n \in 0..MaxDeps}

Idle ==
    /\ idx = 1
    /\ tempDirs = {}
    /\ tempDir = 0
    /\ repo = NoRepo
    /\ hashes = NoHashes
    /\ analysis = NoAnalysis
    /\ trace = << >>
    /\ outcome = [i \in 1..Len(deps) |-> "pending"]
    /\ approved = << >>
    /\ rejected = << >>
    /\ applied = << >>
    /\ tidyRuns = 0
    /\ lastLine = << >>

\* a run of gupdeps over the direct dependencies of a project
Init ==
    /\ deps \in DepLists
    /\ world \in [1..Len(deps) -> BatchWorlds]
    /\ mode \in {"automatic", "interactive"}
    /\ pc = IF Len(deps) > 0 THEN "AnalyzeDependency"
            ELSE IF mode = "automatic" THEN "applyUpdates" ELSE "RunModTidy"
    /\ ret = NoRet
    /\ Idle

GitNext ==
    \/ GetCommitsBetweenVersions
    \/ cloneRepository
    \/ fetchTagsStep
    \/ getCommitLog
    \/ resolveCurrent
    \/ resolveLatest
    \/ getCommitsBetweenHashesStep
    \/ getRecentCommitsStep

Next ==
    \/ AnalyzeDependency
    \/ GitNext
    \/ AnalyzeUpdateStep
    \/ analyzeDependencies
    \/ applyUpdates
    \/ applyUpdatesLoop
    \/ RunModTidy
    \/ runInteractiveMode

Spec == Init /\ [][Next]_vars

\* GetCommitsBetweenVersions called on one dependency whose versions are set
InitGit ==
    /\ \E current \in Versions, latest \in Versions :
         deps = << [Name |-> Names[1], CurrentVersion |-> current,
                    LatestVersion |-> latest, UpdateNeeded |-> (current # latest)] >>
    /\ world \in [1..1 -> TinyWorlds \cup BigWorlds \cup DivergentWorlds]
    /\ mode = "automatic"
    /\ pc = "GetCommitsBetweenVersions"
    /\ ret = NoRet
    /\ Idle

SpecGit == InitGit /\ [][GitNext]_vars

\* the commit lists handed to the analyzer
CommitLists ==
    UNION {{[i \in 1..n |-> [Hash |-> i, Message |-> m[i]]] : m \in [1..n -> Messages]}
           : n \in 0..MaxLen}

\* AnalyzeUpdate on a commit list
InitClassify ==
    /\ deps = << [Name |-> Names[1], CurrentVersion |-> "v1.0.0",
                  LatestVersion |-> "v1.1.0", UpdateNeeded |-> TRUE] >>
    /\ world = << Remote(TinyLen, NoRefs) >>
    /\ mode = "automatic"
    /\ pc = "AnalyzeUpdate"
    /\ \E cs \in CommitLists : ret = [commits |-> cs, err |-> NoErr]
    /\ Idle

NextClassify == AnalyzeUpdateStep

SpecClassify == InitClassify /\ [][NextClassify]_vars

\* AnalyzeDependency called on one dependency as GetDependencies built it
InitAnalyze ==
    /\ \E current \in Versions : deps = << NewDependency(1, current) >>
    /\ world \in [1..1 -> TinyWorlds]
    /\ mode = "automatic"
    /\ pc = "AnalyzeDependency"
    /\ ret = NoRet
    /\ Idle

NextAnalyze ==
    \/ AnalyzeDependency
    \/ GitNext
    \/ AnalyzeUpdateStep

SpecAnalyze == InitAnalyze /\ [][NextAnalyze]_vars

\* GetCommitsBetweenVersions at line 42, the temporary directory made, for a
\* dependency of any module path
InitLocate ==
    /\ \E path \in ModulePaths :
         deps = << [Name |-> path, CurrentVersion |-> "v1.0.0",
                    LatestVersion |-> "v1.1.0", UpdateNeeded |-> TRUE] >>
    /\ world = << Remote(TinyLen, NoRefs) >>
    /\ mode = "automatic"
    /\ pc = "cloneRepository"
    /\ idx = 1
    /\ tempDirs = {1}
    /\ tempDir = 1
    /\ repo = NoRepo
    /\ hashes = NoHashes
    /\ ret = NoRet
    /\ analysis = NoAnalysis
    /\ trace = <<"MkdirTemp">>
    /\ outcome = <<"pending">>
    /\ approved = << >>
    /\ rejected = << >>
    /\ applied = << >>
    /\ tidyRuns = 0
    /\ lastLine = << >>

NextLocate == cloneRepository

SpecLocate == InitLocate /\ [][NextLocate]_vars

-----------------------------------------------------------------------------
(* Properties of the commit analyzer (SpecClassify).                       *)

\* AnalyzeUpdate has returned an analysis of ret.commits
Classified == pc = "loopBody" /\ analysis.err = NoErr /\ Len(analysis.result) = 1

\* number of records of ret.commits whose message matches the category
Matching(category) ==
    Cardinality({i \in 1..Len(ret.commits) :
                    MatchString(patterns[category], ret.commits[i].Message)})

MessagesOf(commits) == [i \in 1..Len(commits) |-> commits[i].Message]

\* C1 (amended): whenever some record matches a breaking-change keyword, the
\* analysis has ShouldUpdate = false, an empty update reason and the rejection
\* reason "Contains N breaking changes", N the number of records matching the
\* breaking category, whatever the fix, performance and feature matches.
C1_BreakingRejects ==
    (Classified /\ Matching("break") > 0) =>
        /\ analysis.result[1].ShouldUpdate = FALSE
        /\ analysis.result[1].UpdateReason = ""
        /\ analysis.result[1].RejectionReason =
              "Contains " \o ToString(Matching("break")) \o " breaking changes"

\* C1 as stated: the reason reads "contains N breaking changes".
C1_AsStated ==
    (Classified /\ Matching("break") > 0) =>
        /\ analysis.result[1].ShouldUpdate = FALSE
        /\ analysis.result[1].RejectionReason =
              "contains " \o ToString(Matching("break")) \o " breaking changes"

\* a breaking change next to a fix is rejected, with the count of one
C1_Witness ==
    /\ Classified
    /\ MessagesOf(ret.commits) = <<MsgBreaking, MsgFixTypo>>
    /\ analysis.result[1].RejectionReason = "Contains 1 breaking changes"

\* C2: with no breaking match and at least one fix or performance match the
\* analysis approves, and the update reason is "{F} fixes", "{P} optimizations"
\* or "{F} fixes, {P} optimizations": the non-zero ones, fixes first, and
\* nothing about features.
C2_FixPerfApproves ==
    (Classified /\ Matching("break") = 0
                /\ (Matching("fix") > 0 \/ Matching("perf") > 0)) =>
        /\ analysis.result[1].ShouldUpdate = TRUE
        /\ analysis.result[1].RejectionReason = ""
        /\ analysis.result[1].UpdateReason =
              IF Matching("fix") > 0 /\ Matching("perf") > 0
              THEN ToString(Matching("fix")) \o " fixes, "
                      \o ToString(Matching("perf")) \o " optimizations"
              ELSE IF Matching("fix") > 0
              THEN ToString(Matching("fix")) \o " fixes"
              ELSE ToString(Matching("perf")) \o " optimizations"

\* a fix next to a feature is approved as "1 fixes"
C2_Witness ==
    /\ Classified
    /\ MessagesOf(ret.commits) = <<MsgFixNull, MsgFeat>>
    /\ Matching("feature") = 1
    /\ analysis.result[1].UpdateReason = "1 fixes"

\* C3: with no breaking, fix or performance match and at least one feature
\* match the analysis approves with the reason "{N} new features", N the
\* number of records matching the feature category.
C3_FeaturesApprove ==
    (Classified /\ Matching("break") = 0 /\ Matching("fix") = 0
                /\ Matching("perf") = 0 /\ Matching("feature") > 0) =>
        /\ analysis.result[1].ShouldUpdate = TRUE
        /\ analysis.result[1].RejectionReason = ""
        /\ analysis.result[1].UpdateReason =
              ToString(Matching("feature")) \o " new features"

\* two features among three records
C3_Witness ==
    /\ Classified
    /\ MessagesOf(ret.commits) = <<MsgFeat, MsgDocs, MsgFeat>>
    /\ analysis.result[1].ShouldUpdate
    /\ analysis.result[1].UpdateReason = "2 new features"

\* C4 (amended): with no match in any category, the empty list included, the
\* analysis has ShouldUpdate = false, no update reason and the rejection
\* reason "No significant improvements found".
C4_NothingFound ==
    (Classified /\ \A c \in Categories : Matching(c) = 0) =>
        /\ analysis.result[1].ShouldUpdate = FALSE
        /\ analysis.result[1].UpdateReason = ""
        /\ analysis.result[1].RejectionReason = "No significant improvements found"

\* C4 as stated: the reason reads "no significant improvements found".
C4_AsStated ==
    (Classified /\ \A c \in Categories : Matching(c) = 0) =>
        /\ analysis.result[1].ShouldUpdate = FALSE
        /\ analysis.result[1].RejectionReason = "no significant improvements found"

\* the empty commit list has been analysed
C4_Witness ==
    /\ Classified
    /\ ret.commits = << >>
    /\ analysis.result[1].RejectionReason = "No significant improvements found"

-----------------------------------------------------------------------------
(* Properties of GetCommitsBetweenVersions (SpecGit).                      *)

\* GetCommitsBetweenVersions has returned
Returned == pc = "AnalyzeUpdate"

Stages == {trace[i] : i \in 1..Len(trace)}

LastStage == IF trace = << >> THEN "" ELSE trace[Len(trace)]

\* the call returned from the exact walk, or from the walk from HEAD
ExactReturned == Returned /\ LastStage = "getCommitsBetweenHashes"

FallbackReturned == Returned /\ LastStage = "getRecentCommits"

Unresolved == hashes.current.err # NoErr \/ hashes.latest.err # NoErr

\* C5 as stated: the returned commit list never has more than 200 records.
C5_AsStated == Returned => Len(ret.commits) <= 200

\* C6: with equal version strings the call returns the empty list and no
\* error, and on the way creates no directory, clones nothing, fetches no
\* tags, resolves no reference and walks no history.
C6_EqualVersionsShortCut ==
    (dep.CurrentVersion = dep.LatestVersion) =>
        /\ pc \in {"GetCommitsBetweenVersions", "AnalyzeUpdate"}
        /\ trace = << >>
        /\ tempDirs = {} /\ tempDir = 0
        /\ repo = NoRepo
        /\ hashes = NoHashes
        /\ Returned => (ret.commits = << >> /\ ret.err = NoErr)

C6_Witness ==
    /\ Returned
    /\ dep.CurrentVersion = dep.LatestVersion
    /\ ret = NoRet
    /\ world[idx].n > 0

\* C7 as stated: when a version does not resolve and the repository can be
\* read, the call returns the walk from HEAD, at most 200 records long.
C7_AsStated ==
    (FallbackReturned /\ Unresolved /\ ret.err = NoErr) =>
        /\ Len(ret.commits) <= 200
        /\ Len(ret.commits) > 0 => ret.commits[1].Hash = repo.head
        /\ \A i \in 1..(Len(ret.commits) - 1) :
              ret.commits[i + 1].Hash = Parent(repo, ret.commits[i].Hash)

Spellings(v) == << "refs/tags/" \o v, "refs/tags/v" \o v, v, "v" \o v >>

\* what resolveVersionRef is to return for version v on the local refs
FirstSpelling(v) ==
    LET found == {k \in 1..4 : repo.refs[Spellings(v)[k]] # 0}
        first == CHOOSE k \in found : \A j \in found : k <= j
    IN IF found = {}
       THEN [hash |-> 0, err |-> "could not resolve version reference for " \o v]
       ELSE [hash |-> repo.refs[Spellings(v)[first]], err |-> NoErr]

\* C9: each version resolves to the commit of the first of refs/tags/<v>,
\* refs/tags/v<v>, <v>, v<v> that resolves, and is not found exactly when none
\* does; a version that is not found sends the call to the walk from HEAD, and
\* the error the call returns is never the resolution's.
C9_ResolveOrder ==
    /\ "resolveCurrent" \in Stages => hashes.current = FirstSpelling(dep.CurrentVersion)
    /\ "resolveLatest" \in Stages => hashes.latest = FirstSpelling(dep.LatestVersion)
    /\ ("resolveLatest" \in Stages /\ Unresolved) =>
          /\ pc \in {"getRecentCommits", "AnalyzeUpdate"}
          /\ "getCommitsBetweenHashes" \notin Stages
          /\ Returned =>
                /\ LastStage = "getRecentCommits"
                /\ ret.err \in {NoErr, "failed to get HEAD reference",
                                "failed to get commit log", "error iterating commits"}
    /\ Returned => \A v \in Versions :
          ret.err # "could not resolve version reference for " \o v

\* refs/tags/vv1.0.0 and the bare v1.0.0 name different commits: the tag wins
C9_Witness ==
    /\ "resolveCurrent" \in Stages
    /\ dep.CurrentVersion = "v1.0.0"
    /\ repo.refs["refs/tags/v1.0.0"] = 0
    /\ repo.refs["refs/tags/vv1.0.0"] = 2
    /\ repo.refs["v1.0.0"] = 3
    /\ hashes.current = [hash |-> 2, err |-> NoErr]

-----------------------------------------------------------------------------
(* Properties of the runs of main.go (Spec).                               *)

\* the statements of one dependency's turn of the loop
AnalysisPcs ==
    {"AnalyzeDependency", "GetCommitsBetweenVersions", "cloneRepository",
     "fetchTags", "getCommitLog", "resolveCurrent", "resolveLatest",
     "getCommitsBetweenHashes", "getRecentCommits", "AnalyzeUpdate", "loopBody"}

\* C10: a dependency whose analysis failed is in neither list and is not
\* applied, the loop has gone on to the dependency after it, and an automatic
\* run ends with every dependency analysed; an analysis that returned an
\* error is the one the loop is about to skip.
C10_FailureIsolated ==
    /\ \A i \in 1..Len(deps) :
          outcome[i] = "failed" =>
             /\ \A k \in 1..Len(approved) : approved[k].Dependency.Name # deps[i].Name
             /\ \A k \in 1..Len(rejected) : rejected[k].Dependency.Name # deps[i].Name
             /\ \A k \in 1..Len(applied) : applied[k].Name # deps[i].Name
             /\ idx > i
             /\ i < Len(deps) =>
                   (outcome[i + 1] = "pending" => (idx = i + 1 /\ pc \in AnalysisPcs))
    /\ (pc = "loopBody" /\ analysis.err # NoErr) =>
          (analysis.result = << >> /\ outcome[idx] = "pending")
    /\ \A i \in 1..Len(deps) :
          (i < idx /\ analysis.err # NoErr /\ pc = "loopBody") => outcome[i] # "pending"
    /\ (pc \in {"applyUpdates", "ApplyUpdate", "RunModTidy"} \/ (pc = "done" /\ mode = "automatic")) =>
          \A i \in 1..Len(deps) : outcome[i] # "pending"

\* the first dependency failed, the second was analysed and approved
C10_Witness ==
    /\ mode = "automatic"
    /\ pc = "done"
    /\ Len(deps) = 2
    /\ outcome[1] = "failed"
    /\ outcome[2] = "approved"
    /\ Len(approved) = 1 /\ approved[1].Dependency.Name = deps[2].Name

-----------------------------------------------------------------------------
(* Properties of one dependency's analysis (Spec).                         *)

\* the statements of GetCommitsBetweenVersions after os.MkdirTemp succeeded
InsideGit ==
    {"cloneRepository", "fetchTags", "getCommitLog", "resolveCurrent",
     "resolveLatest", "getCommitsBetweenHashes", "getRecentCommits"}

\* C11: a temporary directory exists only while the call that made it is
\* between os.MkdirTemp and its return; when the call has returned, after a
\* failed clone, a failed reading of the history or a commit list, the
\* directory is gone, and none is left when the run moves on or ends.
C11_TempDirReleased ==
    /\ pc \in InsideGit => (tempDir = idx /\ tempDirs = {idx})
    /\ pc \notin InsideGit => (tempDir = 0 /\ tempDirs = {})

\* the call made a directory, could not read HEAD, and returned without it
C11_Witness ==
    /\ Returned
    /\ "MkdirTemp" \in Stages
    /\ "getRecentCommits" \in Stages
    /\ ret.err = "failed to get HEAD reference"
    /\ tempDirs = {}

\* the errors the walk from HEAD can return
WalkErrs ==
    {"failed to get HEAD reference", "failed to get commit log",
     "error iterating commits"}

\* C12: each of the two tag fetches, failed or not, is followed by the next
\* statement of the call and returns nothing; a failed one leaves the refs as
\* they were.  Once the tags have been fetched or not, the call resolves both
\* versions against the refs the repository has and returns from one of the
\* two walks; an error it returns is a walk's, never the fetch's.
C12_TagFetchBestEffort ==
    /\ [][(pc \in {"fetchTags", "getCommitLog"}) =>
            /\ pc' = (IF pc = "fetchTags" THEN "getCommitLog" ELSE "resolveCurrent")
            /\ UNCHANGED <<ret, tempDirs, tempDir, hashes>>
            /\ repo'.refs \in {repo.refs, world[idx].refs}]_vars
    /\ []((Returned /\ "fetchTags" \in Stages) =>
            /\ "resolveCurrent" \in Stages /\ "resolveLatest" \in Stages
            /\ hashes.current = FirstSpelling(dep.CurrentVersion)
            /\ hashes.latest = FirstSpelling(dep.LatestVersion)
            /\ LastStage \in {"getCommitsBetweenHashes", "getRecentCommits"}
            /\ ret.err \in {NoErr} \cup WalkErrs)

\* the clone brought no tags and no fetch got them: the versions did not
\* resolve on the refs present, and the call returned the commits from HEAD
C12_Witness ==
    /\ Returned
    /\ "fetchTags" \in Stages /\ "getCommitLog" \in Stages
    /\ repo.refs = NoRefs /\ world[idx].refs # NoRefs
    /\ Unresolved
    /\ ret.err = NoErr
    /\ Len(ret.commits) = TinyLen

\* AnalyzeDependency has returned to the loop without error
Analysed == pc = "loopBody" /\ analysis.err = NoErr

\* C13: a dependency whose lookup found the latest version equal to the
\* current one comes back from AnalyzeDependency with no error and a result
\* that has ShouldUpdate = false, no commits and no reason of either kind; the
\* lookup is the only stage that ran: no GetCommitsBetweenVersions (not even
\* its equal-versions return), no directory, no clone, no AnalyzeUpdate.
C13_NoUpdateNoWalk ==
    /\ (Analysed /\ ~dep.UpdateNeeded) =>
          /\ dep.CurrentVersion = dep.LatestVersion
          /\ analysis.result = << [Dependency |-> dep,
                                   Commits |-> << >>,
                                   ShouldUpdate |-> FALSE,
                                   UpdateReason |-> "",
                                   RejectionReason |-> ""] >>
          /\ trace = <<"GetLatestVersion">>
          /\ ret = NoRet /\ repo = NoRepo /\ hashes = NoHashes
          /\ tempDirs = {}
    /\ (pc \in InsideGit \cup {"GetCommitsBetweenVersions", "AnalyzeUpdate"}) =>
          (dep.UpdateNeeded /\ dep.CurrentVersion # dep.LatestVersion)
    /\ (Analysed /\ dep.UpdateNeeded) => "AnalyzeUpdate" \in Stages

\* the second dependency is at the latest version: analysed by the lookup alone
C13_Witness ==
    /\ Analysed
    /\ idx = 2
    /\ dep.CurrentVersion = "v1.1.0" /\ dep.LatestVersion = "v1.1.0"
    /\ ~dep.UpdateNeeded
    /\ Len(analysis.result) = 1 /\ ~analysis.result[1].ShouldUpdate
    /\ trace = <<"GetLatestVersion">>

-----------------------------------------------------------------------------
(* Properties of the automatic run (Spec).                                 *)

\* the messages of the model that hold a keyword of the category
KeywordMessages ==
    [c \in Categories |-> {m \in Messages : MatchString(patterns[c], m)}]

\* some record of the list holds a keyword of the category
Holds(commits, category) ==
    \E i \in 1..Len(commits) : commits[i].Message \in KeywordMessages[category]

\* C14: in an automatic run every call of ApplyUpdate is for an approved
\* analysis: one that returned no error, of a dependency that needs the
\* update, with ShouldUpdate = true, whose commits hold no breaking-change
\* keyword and hold a fix, performance or feature keyword.  A dependency
\* whose analysis failed, that needs no update, or that was rejected (a
\* breaking-change keyword, or no keyword at all) is in no call.
C14_OnlyApprovedApplied ==
    mode = "automatic" =>
        /\ Len(applied) <= Len(approved)
        /\ \A k \in 1..Len(applied) :
              /\ applied[k].Name = approved[k].Dependency.Name
              /\ applied[k].Version = approved[k].Dependency.LatestVersion
        /\ \A k \in 1..Len(approved) :
              /\ approved[k].ShouldUpdate
              /\ approved[k].Dependency.UpdateNeeded
              /\ ~Holds(approved[k].Commits, "break")
              /\ \E c \in {"fix", "perf", "feature"} : Holds(approved[k].Commits, c)
              /\ \E i \in 1..Len(deps) :
                    /\ deps[i].Name = approved[k].Dependency.Name
                    /\ outcome[i] = "approved"
        /\ \A k \in 1..Len(rejected) : ~rejected[k].ShouldUpdate
        /\ \A i \in 1..Len(deps) :
              outcome[i] # "approved" =>
                 \A k \in 1..Len(applied) : applied[k].Name # deps[i].Name

\* the first dependency was rejected for a breaking change, the second was
\* approved, and the run ended with the second one applied alone
C14_Witness ==
    /\ mode = "automatic"
    /\ pc = "done"
    /\ Len(deps) = 2
    /\ outcome = <<"rejected", "approved">>
    /\ Holds(rejected[1].Commits, "break") /\ Holds(rejected[1].Commits, "fix")
    /\ Len(applied) = 1 /\ applied[1].Name = deps[2].Name

-----------------------------------------------------------------------------
(* Properties of AnalyzeDependency (SpecAnalyze).                          *)

\* the errors AnalyzeDependency may return for the dependency named n
HardErrs(n) ==
    {"failed to get latest version: failed to get versions for " \o String(n),
     "failed to get latest version: no versions found for " \o String(n),
     "failed to get commits: failed to create temp directory",
     "failed to get commits: failed to clone repository "
         \o String(determineRepositoryURL(n).url)}
        \cup {"failed to get commits: " \o e : e \in WalkErrs}

\* C15: AnalyzeDependency returns either an error and no result or a result
\* and no error.  The error is one of: the lookup of the versions failed or
\* found none, the temporary directory could not be made, the clone failed,
\* the walk from HEAD could not read HEAD or the history.  GetCommitsBetween-
\* Versions returns an error from os.MkdirTemp, the clone or the walk from
\* HEAD only, never from a tag fetch, a resolution or the exact walk; and
\* whenever the lookup succeeded and it returned no error (versions not found
\* among the refs, tags not fetched, an empty list of commits), the analysis
\* has a result.
C15_HardFailuresOnly ==
    /\ pc = "loopBody" =>
          /\ (analysis.err = NoErr) <=> (Len(analysis.result) = 1)
          /\ (analysis.err # NoErr) <=> (analysis.result = << >>)
          /\ analysis.err # NoErr => analysis.err \in HardErrs(dep.Name)
          /\ (dep.LatestVersion # "" /\ ret.err = NoErr) => analysis.err = NoErr
          /\ ret.err # NoErr => analysis.err = "failed to get commits: " \o ret.err
          /\ dep.LatestVersion = "" =>
                (analysis.err # NoErr /\ trace = <<"GetLatestVersion">>)
          /\ (analysis.err = NoErr /\ dep.UpdateNeeded) =>
                /\ analysis.result[1].Commits = ret.commits
                /\ analysis.result[1].UpdateReason # ""
                      \/ analysis.result[1].RejectionReason # ""
    /\ (pc \in {"AnalyzeUpdate", "loopBody"} /\ ret.err # NoErr) =>
          /\ LastStage \in {"MkdirTemp", "cloneRepository", "getRecentCommits"}
          /\ ret.commits = << >>
          /\ LastStage = "getRecentCommits" => ret.err \in WalkErrs

\* both versions resolve to one commit: the range is empty, and the analysis
\* returns a result with no commits and no error
C15_Witness ==
    /\ Analysed
    /\ dep.UpdateNeeded
    /\ ~Unresolved /\ hashes.current.hash = hashes.latest.hash
    /\ "getRecentCommits" \notin Stages
    /\ ret = NoRet
    /\ analysis.result[1].Commits = << >>
    /\ analysis.result[1].RejectionReason = "No significant improvements found"

-----------------------------------------------------------------------------
(* Properties of determineRepositoryURL (SpecLocate).                      *)

Digits == {"0", "1", "2", "3", "4", "5", "6", "7", "8", "9"}

\* where the ".vN" of a segment <pkg>.vN starts, 0 when it has none
VersionDot(seg) ==
    LET at == {i \in 2..(Len(seg) - 2) :
                  /\ seg[i] = "." /\ seg[i + 1] = "v"
                  /\ \A j \in (i + 2)..Len(seg) : seg[j] \in Digits}
    IN IF at = {} THEN 0 ELSE CHOOSE i \in at : TRUE

\* the <pkg> of a segment <pkg>.vN
Pkg(seg) == SubSeq(seg, 1, VersionDot(seg) - 1)

\* the segments of a path
Segments(path) == Split(path, "/")

\* the URL the claim gives a module path
Located(path) ==
    LET segs == Segments(path)
    IN IF /\ segs[1] = <<"g", "o", "p", "k", "g", ".", "i", "n">>
          /\ Len(segs) = 2 /\ VersionDot(segs[2]) # 0
       THEN HttpsGithubCom \o GoDash \o Pkg(segs[2]) \o <<"/">> \o Pkg(segs[2]) \o DotGit
       ELSE IF /\ segs[1] = <<"g", "o", "p", "k", "g", ".", "i", "n">>
               /\ Len(segs) = 3 /\ VersionDot(segs[3]) # 0
       THEN HttpsGithubCom \o segs[2] \o <<"/">> \o Pkg(segs[3]) \o DotGit
       ELSE Https \o path \o DotGit

\* cloneRepository was called with a URL, which its error or the clone holds
Cloned == pc \in {"fetchTags", "AnalyzeUpdate"} /\ "cloneRepository" \in Stages

\* the URL cloneRepository was called with is u
ClonedFrom(u) ==
    IF pc = "fetchTags" THEN repo.url = u
    ELSE ret.err = "failed to clone repository " \o String(u)

\* C16 as stated: the URL is https://<path>.git for a path on github.com,
\* gitlab.com or bitbucket.org, https://github.com/go-<pkg>/<pkg>.git for
\* gopkg.in/<pkg>.vN, https://github.com/<user>/<pkg>.git for
\* gopkg.in/<user>/<pkg>.vN, and https://<path>.git for every other path.
C16_AsStated == Cloned => ClonedFrom(Located(dep.Name))

-----------------------------------------------------------------------------
(* Properties of the verdicts (Spec).                                      *)

\* C17 as stated: a result with ShouldUpdate = true has an update reason and
\* no rejection reason; a result that reads as a rejection (ShouldUpdate =
\* false with a rejection reason) is of commits that hold a breaking-change
\* keyword; and only such results are counted in rejectedUpdates: a result
\* with no keyword at all, or of a dependency that needs no update, is not.
C17_AsStated ==
    /\ Analysed =>
          /\ analysis.result[1].ShouldUpdate =>
                /\ analysis.result[1].UpdateReason # ""
                /\ analysis.result[1].RejectionReason = ""
          /\ (~analysis.result[1].ShouldUpdate
                 /\ analysis.result[1].RejectionReason # "") =>
                Holds(analysis.result[1].Commits, "break")
    /\ \A k \in 1..Len(rejected) : Holds(rejected[k].Commits, "break")

-----------------------------------------------------------------------------
(* Properties of the walks on divergent histories (SpecGit).               *)

\* commit a is b or an ancestor of b
Reachable(r, a, b) == a <= b /\ \A x \in r.roots : ~(a < x /\ x <= b)

\* both versions resolved, to commits of which neither is reachable from
\* the other
Divergent ==
    /\ "resolveLatest" \in Stages
    /\ ~Unresolved
    /\ ~Reachable(repo, hashes.current.hash, hashes.latest.hash)
    /\ ~Reachable(repo, hashes.latest.hash, hashes.current.hash)

\* C18 as stated: when both versions resolve to commits on divergent
\* histories, a call that returns commits returns them from the walk from
\* HEAD: HEAD first, then parent by parent.
C18_AsStated ==
    (Returned /\ Divergent /\ ret.err = NoErr) =>
        /\ LastStage = "getRecentCommits"
        /\ Len(ret.commits) > 0
        /\ ret.commits[1].Hash = repo.head
        /\ \A i \in 1..(Len(ret.commits) - 1) :
              ret.commits[i + 1].Hash = Parent(repo, ret.commits[i].Hash)

-----------------------------------------------------------------------------
(* Properties of the order of the stages (SpecAnalyze).                    *)

\* the stages up to the walks: the lookup of the latest version, the
\* temporary directory, the URL, the clone, the two fetches of the tags (the
\* second one opens getCommitLog), the two resolutions
StagesBeforeWalk ==
    <<"GetLatestVersion", "MkdirTemp", "determineRepositoryURL",
      "cloneRepository", "fetchTags", "getCommitLog", "resolveCurrent",
      "resolveLatest">>

\* the complete analyses: the exact walk, the walk from HEAD, or the second
\* after the first, and then the classification
CompleteAnalyses ==
    {StagesBeforeWalk \o walks \o <<"AnalyzeUpdate">> :
        walks \in {<<"getCommitsBetweenHashes">>,
                   <<"getRecentCommits">>,
                   <<"getCommitsBetweenHashes", "getRecentCommits">>}}

IsPrefix(s, t) == Len(s) <= Len(t) /\ s = SubSeq(t, 1, Len(s))

\* C19: the stages an analysis has entered are, in this order and with none
\* left out, a beginning of: lookup of the latest version, temporary
\* directory, URL, clone, fetch of the tags (twice), resolution of the
\* current version, resolution of the latest version, walk (the exact one,
\* the one from HEAD, or both in this order), classification.  No stage is
\* entered twice; the statement the analysis is at is the one after the last
\* stage entered; and the classification is the last stage, entered only when
\* the walk before it returned no error.
C19_StagesInOrder ==
    /\ \E full \in CompleteAnalyses : IsPrefix(trace, full)
    /\ \A i, j \in 1..Len(trace) : i # j => trace[i] # trace[j]
    /\ "AnalyzeUpdate" \in Stages =>
          /\ pc \in {"loopBody", "done"}
          /\ trace[Len(trace)] = "AnalyzeUpdate"
          /\ trace[Len(trace) - 1] \in {"getCommitsBetweenHashes", "getRecentCommits"}
          /\ ret.err = NoErr
          /\ analysis.err = NoErr
          /\ analysis.result[1].Commits = ret.commits
    /\ pc \in InsideGit =>
          /\ Len(trace) >= 2
          /\ pc = "cloneRepository" => LastStage = "MkdirTemp"
          /\ pc = "fetchTags" => LastStage = "cloneRepository"
          /\ pc = "getCommitLog" => LastStage = "fetchTags"
          /\ pc = "resolveCurrent" => LastStage = "getCommitLog"
          /\ pc = "resolveLatest" => LastStage = "resolveCurrent"
          /\ pc = "getCommitsBetweenHashes" => LastStage = "resolveLatest"
          /\ pc = "getRecentCommits" =>
                LastStage \in {"resolveLatest", "getCommitsBetweenHashes"}
    /\ pc = "GetCommitsBetweenVersions" => trace = <<"GetLatestVersion">>
    /\ pc = "AnalyzeDependency" => trace = << >>

\* an analysis that went through every stage: the exact walk failed, the
\* walk from HEAD returned commits, and they were classified
C19_Witness ==
    /\ Analysed
    /\ trace = StagesBeforeWalk
                   \o <<"getCommitsBetweenHashes", "getRecentCommits", "AnalyzeUpdate">>
    /\ Len(ret.commits) = TinyLen

-----------------------------------------------------------------------------
(* Properties of the dependency record (SpecAnalyze).                      *)

\* GetLatestVersion has returned for the dependency under analysis
LookedUp == "GetLatestVersion" \in Stages

\* C20: no step changes the Name or the CurrentVersion of a dependency; the
\* record changes only in the step of GetLatestVersion, and only when it
\* returns no error; when it returns an error the record is as it was.  Once
\* it has returned without error the LatestVersion is set and UpdateNeeded
\* says whether CurrentVersion differs from it; before that, and after a
\* failed lookup, the record is as GetDependencies built it.
C20_OnlyLookupWrites ==
    /\ [][/\ Len(deps') = Len(deps)
          /\ \A i \in 1..Len(deps) :
                /\ deps'[i].Name = deps[i].Name
                /\ deps'[i].CurrentVersion = deps[i].CurrentVersion
                /\ deps'[i] # deps[i] =>
                      /\ pc = "AnalyzeDependency" /\ i = idx
                      /\ ~(pc' = "loopBody" /\ analysis'.err # NoErr)
                /\ (pc = "AnalyzeDependency" /\ pc' = "loopBody"
                                             /\ analysis'.err # NoErr) =>
                      deps' = deps]_vars
    /\ []((LookedUp /\ ~(pc = "loopBody" /\ analysis.err # NoErr
                                         /\ trace = <<"GetLatestVersion">>)) =>
             /\ dep.LatestVersion \in Versions
             /\ dep.UpdateNeeded <=> (dep.CurrentVersion # dep.LatestVersion))
    /\ []((pc = "loopBody" /\ analysis.err # NoErr
                           /\ trace = <<"GetLatestVersion">>) =>
             (dep.LatestVersion = "" /\ ~dep.UpdateNeeded))

\* the lookup found v1.1.0 for a dependency at v1.0.0
C20_Witness ==
    /\ pc = "GetCommitsBetweenVersions"
    /\ dep = [Name |-> Names[1], CurrentVersion |-> "v1.0.0",
               LatestVersion |-> "v1.1.0", UpdateNeeded |-> TRUE]

-----------------------------------------------------------------------------
(* Properties of the two modes (Spec).                                     *)

\* every dependency has been through its turn of the analysis loop
AllAnalysed ==
    /\ idx = Len(deps) + 1
    /\ \A i \in 1..Len(deps) : outcome[i] # "pending"

\* C21: in an automatic run nothing is applied and go mod tidy is not run
\* while a dependency is still to be analysed; the calls of ApplyUpdate are
\* for the approved updates, one each, in the order of the list, whether or
\* not earlier calls failed, and at the end of the run every approved update
\* has had its call; go mod tidy runs only after the last of these calls, at
\* most once, and at the end of the run it has run once if some update was
\* approved and not at all if none was.
C21_AnalyseThenApplyThenTidy ==
    mode = "automatic" =>
        /\ (Len(applied) > 0 \/ tidyRuns > 0
               \/ pc \in {"applyUpdates", "ApplyUpdate", "RunModTidy", "done"}) =>
              AllAnalysed
        /\ Len(applied) <= Len(approved)
        /\ \A k \in 1..Len(applied) :
              /\ applied[k].Name = approved[k].Dependency.Name
              /\ applied[k].Version = approved[k].Dependency.LatestVersion
        /\ \A j, k \in 1..Len(approved) :
              j < k => \E a, b \in 1..Len(deps) :
                          /\ a < b
                          /\ deps[a].Name = approved[j].Dependency.Name
                          /\ deps[b].Name = approved[k].Dependency.Name
        /\ tidyRuns \in {0, 1}
        /\ pc = "ApplyUpdate" => (Len(applied) < Len(approved) /\ tidyRuns = 0)
        /\ pc = "RunModTidy" =>
              (Len(approved) > 0 /\ Len(applied) = Len(approved) /\ tidyRuns = 0)
        /\ tidyRuns = 1 =>
              (pc = "done" /\ Len(approved) > 0 /\ Len(applied) = Len(approved))
        /\ pc = "done" =>
              /\ Len(applied) = Len(approved)
              /\ tidyRuns = (IF Len(approved) > 0 THEN 1 ELSE 0)

\* two updates were approved; the first ApplyUpdate failed, the second was
\* made all the same, and go mod tidy ran once after it
C21_Witness ==
    /\ mode = "automatic"
    /\ pc = "done"
    /\ Len(approved) = 2
    /\ Len(applied) = 2
    /\ ~applied[1].ok /\ applied[2].ok
    /\ applied[1].Name = deps[1].Name /\ applied[2].Name = deps[2].Name
    /\ tidyRuns = 1

\* the answers that read y or yes, and q or quit, once lower-cased and trimmed
AnswersYes == {r \in Responses : TrimSpace(Fold(r)) \in { <<"y">>, <<"y", "e", "s">> }}

AnswersQuit ==
    {r \in Responses : TrimSpace(Fold(r)) \in { <<"q">>, <<"q", "u", "i", "t">> }}

\* the dependencies the user has been asked about
Prompted == {i \in 1..Len(deps) : outcome[i] \in {"applied", "skipped", "quit"}}

\* the dependencies the user has answered y or yes for, up to the i-th
AppliedUpTo(i) == {j \in 1..i : outcome[j] = "applied"}

\* the dependency the last answer was given for
LastPrompted == CHOOSE i \in Prompted : \A j \in Prompted : j <= i

\* C22: in an interactive run the calls of ApplyUpdate are exactly for the
\* dependencies the user answered y or yes for, in the order of the list; the
\* dependency asked about last was applied when the answer read y or yes,
\* ended the session when it read q or quit, and was skipped on any other
\* answer; after q or quit the run is over with every later dependency still
\* untouched and go mod tidy not run; go mod tidy runs at most once, only at
\* the end of the list, and a run that ended without q or quit has been
\* through the whole list and has run it once.
C22_UserDecides ==
    mode = "interactive" =>
        /\ approved = << >> /\ rejected = << >>
        /\ Len(applied) = Cardinality(AppliedUpTo(Len(deps)))
        /\ \A i \in 1..Len(deps) :
              outcome[i] = "applied" =>
                  /\ applied[Cardinality(AppliedUpTo(i))].Name = deps[i].Name
                  /\ applied[Cardinality(AppliedUpTo(i))].Version = deps[i].LatestVersion
        /\ Prompted = {} => lastLine = << >>
        /\ Prompted # {} =>
              /\ outcome[LastPrompted] = "applied" <=> lastLine \in AnswersYes
              /\ outcome[LastPrompted] = "quit" <=> lastLine \in AnswersQuit
              /\ outcome[LastPrompted] = "skipped" <=>
                    lastLine \in Responses \ (AnswersYes \cup AnswersQuit)
        /\ \A i \in 1..Len(deps) :
              outcome[i] = "quit" =>
                  /\ pc = "done"
                  /\ idx = i
                  /\ tidyRuns = 0
                  /\ \A j \in (i + 1)..Len(deps) : outcome[j] = "pending"
        /\ tidyRuns \in {0, 1}
        /\ pc = "RunModTidy" => (AllAnalysed /\ tidyRuns = 0)
        /\ tidyRuns = 1 => (pc = "done" /\ AllAnalysed)
        /\ (pc = "done" /\ \A i \in 1..Len(deps) : outcome[i] # "quit") =>
              (AllAnalysed /\ tidyRuns = 1)

\* the user answered yes for an update whose analysis found a breaking change
\* and it was applied; the list was at its end and go mod tidy ran once
C22_Witness ==
    /\ mode = "interactive"
    /\ pc = "done"
    /\ Len(deps) = 2
    /\ outcome = <<"skipped", "applied">>
    /\ lastLine = <<" ", "y", "e", "s", " ", "\n">>
    /\ Len(analysis.result) = 1
    /\ ~analysis.result[1].ShouldUpdate
    /\ analysis.result[1].RejectionReason # ""
    /\ Len(applied) = 1 /\ applied[1].Name = deps[2].Name
    /\ tidyRuns = 1

\* the user quit at the first dependency: the second was never analysed,
\* nothing was applied and go mod tidy did not run
C22_WitnessQuit ==
    /\ mode = "interactive"
    /\ pc = "done"
    /\ outcome = <<"quit", "pending">>
    /\ lastLine = <<"Q", "u", "i", "t", "\n">>
    /\ applied = << >>
    /\ tidyRuns = 0

====
